---------------------------- MODULE Spec2Model ----------------------------
(***************************************************************************)
(* file2ddl: column type inference for delimited text files.               *)
(*                                                                         *)
(* The model follows src/main.go: the tokenizer splitFields, the           *)
(* recognizers behind inferType and the scan loop of analyzeFileTypes.     *)
(*                                                                         *)
(* Strings are sequences of bytes (0..255), as Go strings are.  To reach   *)
(* the lengths the code compares against (64000 in isVarchar, 64*1024 in   *)
(* bufio.Scanner) without sequences of that length, an element above 255   *)
(* stands for a run of equal bytes: Run(b, n) is n consecutive bytes b.    *)
(***************************************************************************)
EXTENDS Integers, Sequences, FiniteSets, TLC

VARIABLES
    delimiter,      \* analyzeFileTypes/splitFields parameter delim (a string)
    quotes,         \* parameter quotes: "none", "single" or "double"
    expectedCols,   \* parameter expectedCols (0: not supplied)
    scanner,        \* bufio.Scanner: "open", "eof" or "toolong"
    lineNum,        \* local lineNum
    text,           \* scanner.Text() of the line tokenized last
    fields,         \* result of the last splitFields call
    inQuote,        \* splitFields' local inQuote when the last call returned
    prevOpen,       \* inQuote as the call before the last one left it
    headers,        \* local headers
    columnTypes,    \* local columnTypes
    maxLengths,     \* local maxLengths
    idx,            \* index i of the field loop (1-based here)
    pc,             \* position in the program
    ret,            \* the values returned by analyzeFileTypes
    observed,       \* history: per column, the field values of the rows read
    value,          \* inferType's argument (type-inference runs)
    rank,           \* inferType's result (type-inference runs)
    stdout,         \* the lines the latest step wrote to os.Stdout
    args,           \* os.Args[1:]
    flags,          \* main: the values of the flags delim, flavor, quotes, ncols
    positional,     \* main: flag.Args()
    file,           \* the lines of the input file
    stderr,         \* the lines the latest step wrote to os.Stderr
    exit,           \* the exit status of the process, -1 while it runs
    shuffled,       \* the lines of the input file with the data rows reordered
    retShuffled     \* the values analyzeFileTypes returns on shuffled

\* The variables of main and of the runs on whole files.
mainVars == <<args, flags, positional, file, stderr, exit>>
fileVars == <<shuffled, retShuffled>>

vars == <<delimiter, quotes, expectedCols, scanner, lineNum, text, fields,
          inQuote, prevOpen, headers, columnTypes, maxLengths, idx, pc, ret,
          observed, value, rank, stdout, mainVars, fileVars>>

-----------------------------------------------------------------------------
(* Bytes and strings *)

\* The printable ASCII characters, in code order starting at 32.  The double
\* quote (34), the backslash (92) and the grave accent (96) are written by
\* name.
AsciiPrintable ==
    <<" ", "!", "dquote", "#", "$", "%", "&", "'", "(", ")", "*", "+", ",", "-",
      ".", "/", "0", "1", "2", "3", "4", "5", "6", "7", "8", "9", ":", ";",
      "<", "=", ">", "?", "@", "A", "B", "C", "D", "E", "F", "G", "H", "I",
      "J", "K", "L", "M", "N", "O", "P", "Q", "R", "S", "T", "U", "V", "W",
      "X", "Y", "Z", "[", "bslash", "]", "^", "_", "grave", "a", "b", "c", "d", "e",
      "f", "g", "h", "i", "j", "k", "l", "m", "n", "o", "p", "q", "r", "s",
      "t", "u", "v", "w", "x", "y", "z", "{", "|", "}", "~">>

\* The byte of a printable ASCII character.
Ord(c) == 31 + (CHOOSE k \in 1..Len(AsciiPrintable) : AsciiPrintable[k] = c)

\* A string literal, written as a tuple of characters.
B(s) == [k \in 1..Len(s) |-> Ord(s[k])]

\* A run of n equal bytes b as one element (n >= 2): 256 * n + b.  The inputs
\* of the model put a run only where it is long (longer than any literal,
\* number bound or layout the code compares with) and only on a letter or a
\* digit, so that no run holds a delimiter, quote, sign, space or byte
\* above 0x7F.
Run(b, n) == 256 * n + b
IsRun(e) == e > 255
\* The byte an element holds.
ByteOf(e) == e % 256
\* The number of bytes an element stands for.
Width(e) == IF IsRun(e) THEN e \div 256 ELSE 1

RECURSIVE ByteLen(_)
\* len(s) of a Go string: its number of bytes.
ByteLen(s) == IF s = <<>> THEN 0 ELSE Width(Head(s)) + ByteLen(Tail(s))

-----------------------------------------------------------------------------
(* splitFields, src/main.go:108-150 *)

\* strings.Builder.WriteRune(rune(line[i])): a byte below 0x80 is written as
\* itself, a byte b from 0x80 to 0xFF as the two-byte UTF-8 encoding of the
\* code point U+00b.  A run holds bytes below 0x80, each written as itself.
WriteRune(r) ==
    IF r < 128 \/ IsRun(r) THEN <<r>>
    ELSE <<192 + (r \div 64), 128 + (r % 64)>>

\* Does sep occur in s at position k?
HasPrefixAt(s, k, sep) ==
    /\ k + Len(sep) - 1 <= Len(s)
    /\ \A j \in 1..Len(sep) : s[k + j - 1] = sep[j]

RECURSIVE SplitFrom(_, _, _, _)
\* strings.Split for a non-empty separator: k scans s, start is where the
\* current piece began.
SplitFrom(s, sep, k, start) ==
    IF k > Len(s) THEN <<SubSeq(s, start, Len(s))>>
    ELSE IF HasPrefixAt(s, k, sep)
         THEN <<SubSeq(s, start, k - 1)>>
              \o SplitFrom(s, sep, k + Len(sep), k + Len(sep))
         ELSE SplitFrom(s, sep, k + 1, start)

strings_Split(s, sep) == SplitFrom(s, sep, 1, 1)

\* The active quote character, lines 118-122.
quoteChar(q) == IF q = "double" THEN Ord("dquote") ELSE Ord("'")

RECURSIVE splitLoop(_, _, _, _, _, _, _)
\* The loop of lines 124-145 from index i on, then lines 147-149.  Yields the
\* fields and the value of inQuote at the return.
splitLoop(line, delim, q, i, flds, current, inQ) ==
    IF i > Len(line)
    THEN [fields |-> Append(flds, current), inQuote |-> inQ]
    ELSE LET r == line[i] IN
         IF r = quoteChar(q)
         THEN splitLoop(line, delim, q, i + 1, flds, current, ~inQ)
         ELSE IF r = delim[1] /\ ~inQ
         THEN splitLoop(line, delim, q, i + 1, Append(flds, current), <<>>, inQ)
         ELSE splitLoop(line, delim, q, i + 1, flds, current \o WriteRune(r), inQ)

\* A splitFields that runs the quote loop in every mode.
splitCallQuoting(line, delim, q) ==
    splitLoop(line, delim, q, 1, <<>>, <<>>, FALSE)

\* One call of splitFields with its locals: var inQuote bool starts false.
splitCall(line, delim, q) ==
    IF q = "none"
    THEN [fields |-> strings_Split(line, delim), inQuote |-> FALSE]
    ELSE splitLoop(line, delim, q, 1, <<>>, <<>>, FALSE)

splitFields(line, delim, q) == splitCall(line, delim, q).fields

-----------------------------------------------------------------------------
(* The recognizers, src/main.go:262-324 *)

IsDigit(e) == e >= 48 /\ e <= 57
\* A digit, or a run of digits.
IsDigits(e) == IsDigit(ByteOf(e))

\* unicode.IsSpace on the bytes below 0x80: \t \n \v \f \r and the space.
IsSpace(e) == e \in {9, 10, 11, 12, 13, 32}

RECURSIVE TrimLeft(_)
TrimLeft(s) == IF s # <<>> /\ IsSpace(Head(s)) THEN TrimLeft(Tail(s)) ELSE s

RECURSIVE TrimRight(_)
TrimRight(s) ==
    IF s # <<>> /\ IsSpace(s[Len(s)]) THEN TrimRight(SubSeq(s, 1, Len(s) - 1))
    ELSE s

\* strings.TrimSpace.
strings_TrimSpace(s) == TrimRight(TrimLeft(s))

\* strings.ToLower: the letters A-Z are lowered.  No byte above 0x7F lowers to
\* a letter of "true" or "false", so such bytes are kept as they are.
strings_ToLower(s) ==
    [k \in 1..Len(s) |-> IF s[k] >= 65 /\ s[k] <= 90 THEN s[k] + 32 ELSE s[k]]

\* An isBoolean that compares the value as it is, neither trimmed nor lowered.
isBooleanVerbatim(v) ==
    \/ v = B(<<"t", "r", "u", "e">>)
    \/ v = B(<<"f", "a", "l", "s", "e">>)
    \/ v = B(<<"t">>)
    \/ v = B(<<"f">>)

\* isBoolean, lines 262-266.
isBoolean(v) ==
    LET w == strings_ToLower(strings_TrimSpace(v)) IN
    \/ w = B(<<"t", "r", "u", "e">>)
    \/ w = B(<<"f", "a", "l", "s", "e">>)
    \/ w = B(<<"t">>)
    \/ w = B(<<"f">>)

RECURSIVE StripZeros(_)
\* A digit string without its leading zeros.
StripZeros(d) ==
    IF d # <<>> /\ ByteOf(Head(d)) = 48 THEN StripZeros(Tail(d)) ELSE d

\* a < b for two sequences of bytes of equal length, as decimal numbers.
DigitsLess(a, b) ==
    \E k \in 1..Len(a) :
        /\ a[k] < b[k]
        /\ \A j \in 1..(k - 1) : a[j] = b[j]

\* The number a digit string denotes is below the one `bound` denotes.  bound
\* is written without runs and without leading zeros; d may hold runs, and a
\* d of bound's byte length then holds none (a run is longer than any bound).
DecLess(d, bound) ==
    LET m == StripZeros(d) IN
    \/ ByteLen(m) < Len(bound)
    \/ ByteLen(m) = Len(bound) /\ DigitsLess(m, bound)

\* 1 << (bitSize - 1) in decimal digits.
Cutoff(bitSize) ==
    CASE bitSize = 16 -> B(<<"3", "2", "7", "6", "8">>)
      [] bitSize = 32 -> B(<<"2", "1", "4", "7", "4", "8", "3", "6", "4", "8">>)
      [] bitSize = 64 -> B(<<"9", "2", "2", "3", "3", "7", "2", "0", "3", "6",
                             "8", "5", "4", "7", "7", "5", "8", "0", "8">>)

\* strconv.ParseInt(s, 10, bitSize) returns no error: an optional sign, then
\* one or more digits (no underscores in base 10), and a value n with
\* -cutoff <= n < cutoff.
ParseIntOK(s, bitSize) ==
    /\ s # <<>>
    /\ LET neg == s[1] = Ord("-")
           d == IF s[1] = Ord("-") \/ s[1] = Ord("+") THEN Tail(s) ELSE s
       IN /\ d # <<>>
          /\ \A k \in 1..Len(d) : IsDigits(d[k])
          /\ \/ DecLess(d, Cutoff(bitSize))
             \/ neg /\ StripZeros(d) = Cutoff(bitSize)

\* isSmallInt, lines 268-271 (the range test repeats ParseInt's own).
isSmallInt(v) == ParseIntOK(v, 16)

\* isInteger, lines 273-276.
isInteger(v) == ParseIntOK(v, 32)

\* isBigInt, lines 278-281.
isBigInt(v) == ParseIntOK(v, 64)

RECURSIVE SkipDigits(_, _)
\* The index after the digits (and runs of digits) of s that start at k.
SkipDigits(s, k) ==
    IF k <= Len(s) /\ IsDigits(s[k]) THEN SkipDigits(s, k + 1) ELSE k

RECURSIVE ByteAt(_, _)
\* The j-th byte of s (from 1), and the digit zero beyond its end.
ByteAt(s, j) ==
    IF s = <<>> THEN 48
    ELSE IF j <= Width(Head(s)) THEN ByteOf(Head(s))
    ELSE ByteAt(Tail(s), j - Width(Head(s)))

RECURSIVE DecValue(_)
\* The number a short run-free digit string denotes.
DecValue(d) ==
    IF d = <<>> THEN 0 ELSE 10 * DecValue(SubSeq(d, 1, Len(d) - 1)) + (d[Len(d)] - 48)

\* The exponent a digit string denotes, capped where it decides by itself.
ExpValue(d) ==
    LET m == StripZeros(d) IN IF ByteLen(m) > 4 THEN 100000 ELSE DecValue(m)

\* The first 20 digits of 2^1024 - 2^970, the least number that rounds to
\* +Inf as a float64; it has 309 digits.
Float64Limit ==
    B(<<"1", "7", "9", "7", "6", "9", "3", "1", "3", "4",
        "8", "6", "2", "3", "1", "5", "8", "0", "7", "9">>)

\* The decimal number 0.sig * 10^e is at least 2^1024 - 2^970 (decided on the
\* first 20 significant digits).
Float64Overflow(sig, e) ==
    /\ sig # <<>>
    /\ \/ e > 309
       \/ /\ e = 309
          /\ ~DigitsLess([j \in 1..Len(Float64Limit) |-> ByteAt(sig, j)],
                         Float64Limit)

\* The argument without a leading sign.
Unsigned(s) ==
    IF s # <<>> /\ (s[1] = Ord("+") \/ s[1] = Ord("-")) THEN Tail(s) ELSE s

\* strconv's special: "nan", and "inf" or "infinity" with an optional sign,
\* in any case of letters, taken only as the whole argument.
SpecialFloat(s) ==
    \/ strings_ToLower(s) = B(<<"n", "a", "n">>)
    \/ strings_ToLower(Unsigned(s)) = B(<<"i", "n", "f">>)
    \/ strings_ToLower(Unsigned(s)) = B(<<"i", "n", "f", "i", "n", "i", "t", "y">>)

\* strconv's readFloat on a decimal literal, with the range test of atof64:
\* an optional sign, digits with at most one period and at least one digit,
\* an optional exponent e/E with optional sign and at least one digit, and
\* nothing after it; the value must round to a finite float64.  (Hexadecimal
\* literals and underscores need the bytes "x", "X" or "_", which the inputs
\* of the model do not hold.)
DecimalFloat(s) ==
    LET i0 == IF s # <<>> /\ (s[1] = Ord("+") \/ s[1] = Ord("-")) THEN 2 ELSE 1
        i1 == SkipDigits(s, i0)
        dot == i1 <= Len(s) /\ s[i1] = Ord(".")
        i2 == IF dot THEN SkipDigits(s, i1 + 1) ELSE i1
        sawexp == i2 <= Len(s) /\ (s[i2] = Ord("e") \/ s[i2] = Ord("E"))
        esign == i2 + 1 <= Len(s)
                 /\ (s[i2 + 1] = Ord("+") \/ s[i2 + 1] = Ord("-"))
        i3 == IF esign THEN i2 + 2 ELSE i2 + 1
        i4 == IF sawexp THEN SkipDigits(s, i3) ELSE i2
        intPart == SubSeq(s, i0, i1 - 1)
        fracPart == IF dot THEN SubSeq(s, i1 + 1, i2 - 1) ELSE <<>>
        all == intPart \o fracPart
        sig == StripZeros(all)
        ev == IF sawexp THEN ExpValue(SubSeq(s, i3, i4 - 1)) ELSE 0
        e10 == IF sawexp /\ esign /\ s[i2 + 1] = Ord("-") THEN 0 - ev ELSE ev
    IN /\ all # <<>>
       /\ sawexp => i4 > i3
       /\ i4 = Len(s) + 1
       /\ ~Float64Overflow(sig, ByteLen(intPart) - (ByteLen(all) - ByteLen(sig)) + e10)

\* strconv.ParseFloat(s, 64) returns no error.
ParseFloatOK(s) == SpecialFloat(s) \/ DecimalFloat(s)

\* isNumeric, lines 283-286.
isNumeric(v) == ParseFloatOK(v)

\* The two-digit number at v[k], v[k+1].
Num2(v, k) == 10 * (v[k] - 48) + (v[k + 1] - 48)

\* Are the n elements of v from k on all single digits?
DigitsAt(v, k, n) ==
    /\ k + n - 1 <= Len(v)
    /\ \A j \in k..(k + n - 1) : IsDigit(v[j])

\* time's daysIn.
DaysIn(month, year) ==
    IF month = 2
    THEN IF year % 4 = 0 /\ (year % 100 # 0 \/ year % 400 = 0) THEN 29 ELSE 28
    ELSE IF month \in {4, 6, 9, 11} THEN 30 ELSE 31

RECURSIVE SkipSpaces(_, _)
\* time's cutspace.
SkipSpaces(v, k) ==
    IF k <= Len(v) /\ v[k] = Ord(" ") THEN SkipSpaces(v, k + 1) ELSE k

\* time's commaOrPeriod.
CommaOrPeriod(e) == e = Ord(".") \/ e = Ord(",")

\* time's atoi on the n elements of v from k on, with a result >= 0: an
\* optional sign, then digits only (possibly none); a minus sign only before
\* zeros.
AtoiNonNeg(v, k, n) ==
    LET signed == n > 0 /\ (v[k] = Ord("+") \/ v[k] = Ord("-"))
        from == IF signed THEN k + 1 ELSE k
    IN /\ \A j \in from..(k + n - 1) : IsDigit(v[j])
       /\ (n > 0 /\ v[k] = Ord("-")) => \A j \in from..(k + n - 1) : v[j] = 48

RECURSIVE ParseTime(_, _, _, _, _, _, _)
\* time.Parse(layout, v) returns no error.  lay is the layout in its chunks
\* ("year" for 2006, "month" for 01, "day" for 02, "hour" for 15, "minute"
\* for 04, "second" for 05, "frac3" for .000, "zone" for Z07:00, any other
\* chunk a literal character); k is the place in v, t the place in lay, and
\* y, mo, d the year, month and day read so far.
ParseTime(v, k, lay, t, y, mo, d) ==
    IF t > Len(lay)
    THEN k = Len(v) + 1 /\ d >= 1 /\ d <= DaysIn(mo, y)
    ELSE LET c == lay[t] IN
      CASE c = "year" ->
             /\ DigitsAt(v, k, 4)
             /\ ParseTime(v, k + 4, lay, t + 1,
                          100 * Num2(v, k) + Num2(v, k + 2), mo, d)
        [] c = "month" ->
             /\ DigitsAt(v, k, 2)
             /\ Num2(v, k) >= 1 /\ Num2(v, k) <= 12
             /\ ParseTime(v, k + 2, lay, t + 1, y, Num2(v, k), d)
        [] c = "day" ->
             /\ DigitsAt(v, k, 2)
             /\ ParseTime(v, k + 2, lay, t + 1, y, mo, Num2(v, k))
        [] c = "hour" ->
             \* getnum(value, false): one digit, or two when a second follows
             /\ DigitsAt(v, k, 1)
             /\ IF DigitsAt(v, k, 2)
                THEN Num2(v, k) < 24 /\ ParseTime(v, k + 2, lay, t + 1, y, mo, d)
                ELSE ParseTime(v, k + 1, lay, t + 1, y, mo, d)
        [] c = "minute" ->
             /\ DigitsAt(v, k, 2)
             /\ Num2(v, k) < 60
             /\ ParseTime(v, k + 2, lay, t + 1, y, mo, d)
        [] c = "second" ->
             /\ DigitsAt(v, k, 2)
             /\ Num2(v, k) < 60
             /\ LET k2 == k + 2
                    \* a fractional second in the input but not in the layout
                    frac == /\ k2 + 1 <= Len(v)
                            /\ CommaOrPeriod(v[k2])
                            /\ IsDigits(v[k2 + 1])
                            /\ ~(t + 1 <= Len(lay) /\ lay[t + 1] = "frac3")
                IN ParseTime(v, IF frac THEN SkipDigits(v, k2 + 1) ELSE k2,
                             lay, t + 1, y, mo, d)
        [] c = "frac3" ->
             /\ k + 3 <= Len(v)
             /\ CommaOrPeriod(v[k])
             /\ AtoiNonNeg(v, k + 1, 3)
             /\ ParseTime(v, k + 4, lay, t + 1, y, mo, d)
        [] c = "zone" ->
             IF k <= Len(v) /\ v[k] = Ord("Z")
             THEN ParseTime(v, k + 1, lay, t + 1, y, mo, d)
             ELSE /\ k + 5 <= Len(v)
                  /\ v[k + 3] = Ord(":")
                  /\ DigitsAt(v, k + 1, 2) /\ DigitsAt(v, k + 4, 2)
                  /\ Num2(v, k + 1) <= 24 /\ Num2(v, k + 4) <= 60
                  /\ (v[k] = Ord("+") \/ v[k] = Ord("-"))
                  /\ ParseTime(v, k + 6, lay, t + 1, y, mo, d)
        [] c = " " ->
             \* time's skip: a space of the layout takes any run of spaces
             /\ ~(k <= Len(v) /\ v[k] # Ord(" "))
             /\ ParseTime(v, SkipSpaces(v, k), lay, t + 1, y, mo, d)
        [] OTHER ->
             /\ k <= Len(v)
             /\ v[k] = Ord(c)
             /\ ParseTime(v, k + 1, lay, t + 1, y, mo, d)

time_Parse(lay, v) == ParseTime(v, 1, lay, 1, 0, 1, 1)

\* The layouts of isTimestamp, lines 290-296.
TimestampFormats ==
    << <<"year", "-", "month", "-", "day", " ", "hour", ":", "minute", ":", "second">>,
       <<"year", "-", "month", "-", "day", "T", "hour", ":", "minute", ":", "second">>,
       <<"year", "-", "month", "-", "day", " ", "hour", ":", "minute", ":", "second", "frac3">>,
       <<"year", "-", "month", "-", "day", "T", "hour", ":", "minute", ":", "second", "frac3">>,
       <<"year", "-", "month", "-", "day", "T", "hour", ":", "minute", ":", "second", "zone">> >>

\* isTimestamp, lines 288-304.
isTimestamp(v) ==
    \E f \in 1..Len(TimestampFormats) : time_Parse(TimestampFormats[f], v)

\* The layouts of isDate, lines 308-312.
DateFormats ==
    << <<"year", "-", "month", "-", "day">>,
       <<"month", "/", "day", "/", "year">>,
       <<"day", "/", "month", "/", "year">> >>

\* isDate, lines 306-320.
isDate(v) == \E f \in 1..Len(DateFormats) : time_Parse(DateFormats[f], v)

\* The longest varchar, line 323.
VarcharMax == 64000

\* isVarchar, lines 322-324.
isVarchar(v) == ByteLen(v) <= VarcharMax

-----------------------------------------------------------------------------
(* inferType, src/main.go:209-260 *)

\* A catalog that tries integer before smallint.
GetTypesIntegerFirst ==
    <<"boolean", "integer", "smallint", "bigint", "numeric", "timestamp",
      "date", "varchar", "text">>

\* PostgreSQLAnalyzer.GetTypes(): the names of the catalog in order.  The
\* package dbtypes is not among the sources; the order is the one of
\* spec.md 4.2, which TestTypeInference and TestFileAnalysis rely on.
GetTypes ==
    <<"boolean", "smallint", "integer", "bigint", "numeric", "timestamp",
      "date", "varchar", "text">>

\* One case of the switch of lines 213-257: does the type named name take v?
caseAccepts(name, v) ==
    CASE name = "boolean" -> isBoolean(v)
      [] name = "smallint" -> isSmallInt(v)
      [] name = "integer" -> isInteger(v) /\ ~isSmallInt(v)
      [] name = "bigint" -> isBigInt(v) /\ ~isInteger(v)
      [] name = "numeric" -> isNumeric(v) /\ ~isBigInt(v)
      [] name = "timestamp" -> isTimestamp(v)
      [] name = "date" -> isDate(v)
      [] name = "varchar" -> isVarchar(v)
      [] name = "text" -> TRUE
      [] OTHER -> FALSE

RECURSIVE inferFromWithoutVarchar(_, _, _)
\* The loop without its case "varchar".
inferFromWithoutVarchar(v, types, i) ==
    IF i >= Len(types) THEN Len(types) - 1
    ELSE IF types[i + 1] # "varchar" /\ caseAccepts(types[i + 1], v) THEN i
    ELSE inferFromWithoutVarchar(v, types, i + 1)

RECURSIVE inferFrom(_, _, _)
\* The loop of lines 212-259 from index i (0-based) on.
inferFrom(v, types, i) ==
    IF i >= Len(types) THEN Len(types) - 1
    ELSE IF caseAccepts(types[i + 1], v) THEN i
    ELSE inferFrom(v, types, i + 1)

inferType(v, types) == inferFrom(v, types, 0)

\* analyzer.GetTypes()[t].Name, for a 0-based index t.
TypeName(t) == GetTypes[t + 1]

-----------------------------------------------------------------------------
(* The inputs of the model *)

\* The largest number of data rows of a file.
MaxRows == 2

\* bufio.MaxScanTokenSize: a line of this many bytes or more does not fit the
\* buffer of the bufio.Scanner of line 154, which then stops with ErrTooLong.
MaxScanTokenSize == 64 * 1024

\* Field values, at least one of every rank of the catalog: boolean, smallint,
\* integer, bigint, numeric, timestamp, date, varchar of lengths 0, 2, 5 and
\* VarcharMax, and text (VarcharMax + 1 bytes).
Cells ==
    { B(<<"t">>),
      B(<<"7">>),
      B(<<"3", "2", "7", "6", "8">>),
      B(<<"2", "1", "4", "7", "4", "8", "3", "6", "4", "8">>),
      B(<<"1", ".", "5">>),
      B(<<"2", "0", "2", "4", "-", "0", "3", "-", "2", "0", " ",
          "1", "0", ":", "3", "0", ":", "0", "0">>),
      B(<<"2", "0", "2", "4", "-", "0", "3", "-", "2", "0">>),
      B(<<"a", "b">>),
      B(<<"a", "b", "c", "d", "e">>),
      <<>>,
      <<Run(Ord("z"), VarcharMax)>>,
      <<Run(Ord("z"), VarcharMax + 1)>> }

\* The lines a data row is drawn from, for delimiter d: one cell; a cell and
\* a second one; three cells; quoted cells holding the delimiter, closed and
\* unterminated; and lines of MaxScanTokenSize - 1 and MaxScanTokenSize bytes.
DataLines(d) ==
    Cells
    \cup { c \o d \o B(<<"t">>) :
             c \in {B(<<"7">>), B(<<"1", ".", "5">>), B(<<"a", "b">>), <<>>} }
    \cup { B(<<"t">>) \o d \o c : c \in {B(<<"7">>), B(<<"a", "b", "c">>), <<>>} }
    \cup { B(<<"t">>) \o d \o B(<<"t">>) \o d \o B(<<"t">>),
           B(<<"dquote", "a">>) \o d \o B(<<"b", "dquote">>),
           B(<<"'", "7", "'">>) \o d \o B(<<"7">>),
           B(<<"dquote", "a">>) \o d \o B(<<"b">>),
           <<Run(Ord("z"), MaxScanTokenSize - 1)>>,
           <<Run(Ord("z"), MaxScanTokenSize)>> }

\* The lines a header is drawn from.
HeaderLines(d) ==
    { B(<<"a">>),
      B(<<"a">>) \o d \o B(<<"b">>),
      B(<<"dquote", "a">>) \o d \o B(<<"b", "dquote">>),
      <<Run(Ord("z"), MaxScanTokenSize)>> }

\* What the reader holds next: the end of the file, or one more line.
Pending(lines) ==
    {[eof |-> TRUE, line |-> <<>>]} \cup {[eof |-> FALSE, line |-> l] : l \in lines}

\* scanner.Scan() on what the reader holds next: the scanner's state after the
\* call; Scan returned true iff it is "open".
Scan(next) ==
    IF next.eof THEN "eof"
    ELSE IF ByteLen(next.line) >= MaxScanTokenSize THEN "toolong"
    ELSE "open"

-----------------------------------------------------------------------------
(* analyzeFileTypes, src/main.go:153-207 *)

NoError == [kind |-> "nil", line |-> 0, got |-> 0, want |-> 0]

\* Nothing returned yet.
Running ==
    [returned |-> FALSE, headers |-> <<>>, columnTypes |-> <<>>,
     maxLengths |-> <<>>, err |-> NoError]

\* A failure that hands back what was built so far.
FailureKeeping(e) ==
    [returned |-> TRUE, headers |-> headers, columnTypes |-> columnTypes,
     maxLengths |-> maxLengths, err |-> e]

\* return nil, nil, nil, err
Failure(e) ==
    [returned |-> TRUE, headers |-> <<>>, columnTypes |-> <<>>,
     maxLengths |-> <<>>, err |-> e]

\* The values of the flags before flag.Parse(), lines 33-36.
FlagDefaults ==
    [delim |-> <<>>,
     flavor |-> B(<<"p", "o", "s", "t", "g", "r", "e", "s", "q", "l">>),
     quotes |-> B(<<"n", "o", "n", "e">>),
     ncols |-> 0]

\* The variables of main and of the runs on whole files, where they have no
\* part.
MainIdle ==
    /\ args = <<>> /\ flags = FlagDefaults /\ positional = <<>>
    /\ file = <<>> /\ stderr = <<>> /\ exit = -1
    /\ shuffled = <<>> /\ retShuffled = Running

\* The variables of the tokenizer and type-inference runs.
Idle == /\ inQuote = FALSE /\ prevOpen = FALSE /\ value = <<>> /\ rank = 0

\* Lines 154-158: the state when analyzeFileTypes starts.
Init ==
    /\ delimiter = B(<<",">>)
    /\ quotes \in {"none", "single", "double"}
    /\ expectedCols \in 0..2
    /\ scanner = "open"
    /\ lineNum = 0
    /\ text = <<>>
    /\ fields = <<>>
    /\ headers = <<>>
    /\ columnTypes = <<>>
    /\ maxLengths = <<>>
    /\ idx = 0
    /\ pc = "header"
    /\ ret = Running
    /\ observed = <<>>
    /\ stdout = <<>>
    /\ Idle
    /\ MainIdle

\* A header read that never compares the count with expectedCols.
ReadHeaderUnchecked ==
    /\ pc = "header"
    /\ \E next \in Pending(HeaderLines(delimiter)) :
         /\ scanner' = Scan(next)
         /\ IF scanner' = "open"
            THEN LET h == splitFields(next.line, delimiter, quotes) IN
                 /\ lineNum' = lineNum + 1
                 /\ text' = next.line
                 /\ headers' = h
                 /\ columnTypes' = [i \in 1..Len(h) |-> 0]
                 /\ maxLengths' = [i \in 1..Len(h) |-> 0]
                 /\ observed' = [i \in 1..Len(h) |-> {}]
            ELSE UNCHANGED <<lineNum, text, headers, columnTypes,
                             maxLengths, observed>>
    /\ pc' = "rows"
    /\ UNCHANGED <<delimiter, quotes, expectedCols, fields, idx, ret,
                   inQuote, prevOpen, value, rank>>
    /\ stdout' = <<>>
    /\ UNCHANGED <<mainVars, fileVars>>

\* A header read that compares the count with expectedCols also when the
\* file has no line.
ReadHeaderCheckingEmpty ==
    /\ pc = "header"
    /\ \E next \in Pending(HeaderLines(delimiter)) :
         /\ scanner' = Scan(next)
         /\ IF scanner' = "open"
            THEN LET h == splitFields(next.line, delimiter, quotes) IN
                 /\ lineNum' = lineNum + 1
                 /\ text' = next.line
                 /\ headers' = h
                 /\ columnTypes' = [i \in 1..Len(h) |-> 0]
                 /\ maxLengths' = [i \in 1..Len(h) |-> 0]
                 /\ observed' = [i \in 1..Len(h) |-> {}]
                 /\ IF expectedCols > 0 /\ Len(h) # expectedCols
                    THEN /\ pc' = "done"
                         /\ ret' = Failure([kind |-> "header", line |-> 0,
                                            got |-> Len(h), want |-> expectedCols])
                    ELSE /\ pc' = "rows"
                         /\ ret' = ret
            ELSE /\ IF expectedCols > 0
                    THEN /\ pc' = "done"
                         /\ ret' = Failure([kind |-> "header", line |-> 0,
                                            got |-> 0, want |-> expectedCols])
                    ELSE /\ pc' = "rows"
                         /\ ret' = ret
                 /\ UNCHANGED <<lineNum, text, headers, columnTypes,
                                maxLengths, observed>>
    /\ UNCHANGED <<delimiter, quotes, expectedCols, fields, idx,
                   inQuote, prevOpen, value, rank>>
    /\ stdout' = <<>>
    /\ UNCHANGED <<mainVars, fileVars>>

\* Lines 161-175: the header.
ReadHeader ==
    /\ pc = "header"
    /\ \E next \in Pending(HeaderLines(delimiter)) :
         /\ scanner' = Scan(next)
         /\ IF scanner' = "open"
            THEN LET h == splitFields(next.line, delimiter, quotes) IN
                 /\ lineNum' = lineNum + 1
                 /\ text' = next.line
                 /\ headers' = h
                 /\ columnTypes' = [i \in 1..Len(h) |-> 0]
                 /\ maxLengths' = [i \in 1..Len(h) |-> 0]
                 /\ observed' = [i \in 1..Len(h) |-> {}]
                 /\ IF expectedCols > 0 /\ Len(h) # expectedCols
                    THEN /\ pc' = "done"
                         /\ ret' = Failure([kind |-> "header", line |-> 0,
                                            got |-> Len(h), want |-> expectedCols])
                    ELSE /\ pc' = "rows"
                         /\ ret' = ret
            ELSE /\ pc' = "rows"
                 /\ UNCHANGED <<lineNum, text, headers, columnTypes,
                                maxLengths, observed, ret>>
    /\ UNCHANGED <<delimiter, quotes, expectedCols, fields, idx,
                   inQuote, prevOpen, value, rank>>
    /\ stdout' = <<>>
    /\ UNCHANGED <<mainVars, fileVars>>

\* A row read that passes over a row of another field count and goes on.
ReadRowSkipping ==
    /\ pc = "rows"
    /\ IF scanner # "open"
       THEN /\ pc' = "finish"
            /\ UNCHANGED <<scanner, lineNum, text, fields, idx, observed>>
       ELSE \E next \in Pending(IF lineNum <= MaxRows
                                THEN DataLines(delimiter) ELSE {}) :
              /\ scanner' = Scan(next)
              /\ IF scanner' = "open"
                 THEN LET f == splitFields(next.line, delimiter, quotes) IN
                      /\ lineNum' = lineNum + 1
                      /\ text' = next.line
                      /\ fields' = f
                      /\ IF Len(f) # Len(headers)
                         THEN /\ pc' = "rows"
                              /\ idx' = idx
                              /\ observed' = observed
                         ELSE /\ pc' = "fields"
                              /\ idx' = 1
                              /\ observed' =
                                   [i \in 1..Len(f) |-> observed[i] \cup {f[i]}]
                 ELSE /\ pc' = "finish"
                      /\ UNCHANGED <<lineNum, text, fields, idx, observed>>
    /\ UNCHANGED <<delimiter, quotes, expectedCols, headers, columnTypes,
                   maxLengths, ret, inQuote, prevOpen, value, rank>>
    /\ stdout' = <<>>
    /\ UNCHANGED <<mainVars, fileVars>>

\* Lines 178-185: the loop condition, the tokenizing of the row and the test
\* of its field count.
ReadRow ==
    /\ pc = "rows"
    /\ IF scanner # "open"
       THEN /\ pc' = "finish"
            /\ UNCHANGED <<scanner, lineNum, text, fields, idx, ret, observed>>
       ELSE \E next \in Pending(IF lineNum <= MaxRows
                                THEN DataLines(delimiter) ELSE {}) :
              /\ scanner' = Scan(next)
              /\ IF scanner' = "open"
                 THEN LET f == splitFields(next.line, delimiter, quotes) IN
                      /\ lineNum' = lineNum + 1
                      /\ text' = next.line
                      /\ fields' = f
                      /\ IF Len(f) # Len(headers)
                         THEN /\ pc' = "done"
                              /\ idx' = idx
                              /\ ret' = Failure([kind |-> "line",
                                                 line |-> lineNum + 1,
                                                 got |-> Len(f),
                                                 want |-> Len(headers)])
                              /\ observed' = observed
                         ELSE /\ pc' = "fields"
                              /\ idx' = 1
                              /\ ret' = ret
                              /\ observed' =
                                   [i \in 1..Len(f) |-> observed[i] \cup {f[i]}]
                 ELSE /\ pc' = "finish"
                      /\ UNCHANGED <<lineNum, text, fields, idx, ret, observed>>
    /\ UNCHANGED <<delimiter, quotes, expectedCols, headers, columnTypes,
                   maxLengths, inQuote, prevOpen, value, rank>>
    /\ stdout' = <<>>
    /\ UNCHANGED <<mainVars, fileVars>>

\* A column that takes the type of every field, higher or not.
promoteAlways(types, i, fieldType) == [types EXCEPT ![i] = fieldType]

\* Lines 190-193: the promotion of column i on a field of type fieldType.
promote(types, i, fieldType) ==
    IF fieldType > types[i] THEN [types EXCEPT ![i] = fieldType] ELSE types

\* A length that is recorded for a field of any type.
recordLengthOfAny(lengths, i, fieldType, field) ==
    IF ByteLen(field) > lengths[i]
    THEN [lengths EXCEPT ![i] = ByteLen(field)]
    ELSE lengths

\* Lines 194-198: the length of column i on a field of type fieldType.
recordLength(lengths, i, fieldType, field) ==
    IF TypeName(fieldType) = "varchar" /\ ByteLen(field) > lengths[i]
    THEN [lengths EXCEPT ![i] = ByteLen(field)]
    ELSE lengths

\* Line 192: the line printed when a column is promoted.
DebugPromoted(header, typeName) == <<"DEBUG", "promoted", header, typeName>>

\* Lines 189-193: the type of the field at idx and the promotion of its
\* column, with the line it prints.
AnalyzeField ==
    /\ pc = "fields"
    /\ LET fieldType == inferType(fields[idx], GetTypes) IN
         /\ columnTypes' = promote(columnTypes, idx, fieldType)
         /\ stdout' = IF fieldType > columnTypes[idx]
                       THEN <<DebugPromoted(headers[idx], TypeName(fieldType))>>
                       ELSE <<>>
    /\ pc' = "length"
    /\ UNCHANGED <<delimiter, quotes, expectedCols, scanner, lineNum, text,
                   fields, headers, maxLengths, idx, ret, observed, inQuote,
                   prevOpen, value, rank>>
    /\ UNCHANGED <<mainVars, fileVars>>

\* Lines 194-199: the length of the field at idx, and the step to the next
\* field or, after the last one, to the next row.
RecordField ==
    /\ pc = "length"
    /\ LET field == fields[idx] IN
         maxLengths' = recordLength(maxLengths, idx,
                                    inferType(field, GetTypes), field)
    /\ IF idx < Len(fields)
       THEN /\ idx' = idx + 1
            /\ pc' = "fields"
            /\ UNCHANGED <<text, fields>>
       ELSE /\ idx' = 0
            /\ pc' = "rows"
            /\ text' = <<>>
            /\ fields' = <<>>
    /\ stdout' = <<>>
    /\ UNCHANGED <<delimiter, quotes, expectedCols, scanner, lineNum, headers,
                   columnTypes, ret, observed, inQuote, prevOpen, value, rank>>
    /\ UNCHANGED <<mainVars, fileVars>>

\* Lines 202-206: the scanner's error, or the results.
Finish ==
    /\ pc = "finish"
    /\ pc' = "done"
    /\ ret' = IF scanner = "toolong"
              THEN Failure([kind |-> "read", line |-> 0, got |-> 0, want |-> 0])
              ELSE [returned |-> TRUE, headers |-> headers,
                    columnTypes |-> columnTypes, maxLengths |-> maxLengths,
                    err |-> NoError]
    /\ UNCHANGED <<delimiter, quotes, expectedCols, scanner, lineNum, text,
                   fields, headers, columnTypes, maxLengths, idx, observed,
                   inQuote, prevOpen, value, rank>>
    /\ stdout' = <<>>
    /\ UNCHANGED <<mainVars, fileVars>>

Next == ReadHeader \/ ReadRow \/ AnalyzeField \/ RecordField \/ Finish

Spec == Init /\ [][Next]_vars

-----------------------------------------------------------------------------
(* Runs of the tokenizer alone: splitFields called on line after line *)

\* The longest line of a tokenizer run, in bytes.
MaxLineLen == 3

\* The bytes of those lines: a letter, the delimiter, a byte above 0x7F
\* (0xE9) and the quote characters: both where no quote is active, the
\* active one in a quote mode, where the other one is a character like the
\* letter.
SplitAlphabet(q) ==
    {Ord("a"), Ord(","), 233}
    \cup (IF q = "none" THEN {Ord("dquote"), Ord("'")} ELSE {quoteChar(q)})

\* All the strings over alphabet of length n.
StringsOfLen(alphabet, n) == [1..n -> alphabet]

\* The inputs of TestQuotedFieldHandling, src/unnamed/part_000:558-599.
SplitFixtures ==
    { B(<<"a", ",", "b", ",", "c">>),
      B(<<"dquote", "a", "dquote", ",", "dquote", "b", "dquote", ",",
          "dquote", "c", "dquote">>),
      B(<<"'", "a", "'", ",", "'", "b", "'", ",", "'", "c", "'">>),
      B(<<"dquote", "a", "dquote", ",", "b", ",", "dquote", "c", "dquote">>),
      B(<<"dquote", "a", ",", "b", "dquote", ",", "dquote", "c", ",", "d", "dquote">>),
      B(<<"dquote", "a", " ", "b", "dquote", ",", "dquote", "c", " ", "d", "dquote">>) }

\* Lines with both quote characters: "it's", 'say "a"' and "a,'b.
MixedQuoteLines ==
    { B(<<"dquote", "i", "t", "'", "s", "dquote">>),
      B(<<"'", "s", "a", "y", " ", "dquote", "a", "dquote", "'">>),
      B(<<"dquote", "a", ",", "'", "b">>) }

SplitLines(q) ==
    SplitFixtures \cup MixedQuoteLines
    \cup UNION { StringsOfLen(SplitAlphabet(q), n) : n \in 0..MaxLineLen }

SplitInit ==
    /\ delimiter = B(<<",">>)
    /\ quotes \in {"none", "single", "double"}
    /\ text = <<>>
    /\ fields = <<>>
    /\ inQuote = FALSE
    /\ prevOpen = FALSE
    /\ pc = "split"
    /\ expectedCols = 0 /\ scanner = "open" /\ lineNum = 0 /\ headers = <<>>
    /\ columnTypes = <<>> /\ maxLengths = <<>> /\ idx = 0 /\ ret = Running
    /\ observed = <<>> /\ value = <<>> /\ rank = 0
    /\ stdout = <<>>
    /\ MainIdle

\* A call of splitFields that starts from the inQuote the call before left.
TokenizeCarrying ==
    /\ pc \in {"split", "split_done"}
    /\ \E line \in SplitLines(quotes) :
         LET c == IF quotes = "none" THEN splitCall(line, delimiter, quotes)
                  ELSE splitLoop(line, delimiter, quotes, 1, <<>>, <<>>, inQuote)
         IN
         /\ text' = line
         /\ fields' = c.fields
         /\ inQuote' = c.inQuote
    /\ prevOpen' = inQuote
    /\ pc' = "split_done"
    /\ UNCHANGED <<delimiter, quotes, expectedCols, scanner, lineNum, headers,
                   columnTypes, maxLengths, idx, ret, observed, value, rank>>
    /\ stdout' = <<>>
    /\ UNCHANGED <<mainVars, fileVars>>

\* One call of splitFields, lines 108-150, on any line.  The locals of the
\* call are new: inQuote starts false whatever the call before left.
Tokenize ==
    /\ pc \in {"split", "split_done"}
    /\ \E line \in SplitLines(quotes) :
         LET c == splitCall(line, delimiter, quotes) IN
         /\ text' = line
         /\ fields' = c.fields
         /\ inQuote' = c.inQuote
    /\ prevOpen' = inQuote
    /\ pc' = "split_done"
    /\ UNCHANGED <<delimiter, quotes, expectedCols, scanner, lineNum, headers,
                   columnTypes, maxLengths, idx, ret, observed, value, rank>>
    /\ stdout' = <<>>
    /\ UNCHANGED <<mainVars, fileVars>>

SplitNext == Tokenize

SplitSpec == SplitInit /\ [][SplitNext]_vars

-----------------------------------------------------------------------------
(* Runs of the type inference alone: inferType called on one value *)

\* The longest generated value, in bytes.
MaxValueLen == 3

\* The bytes of the generated values: digits, a sign, the period, the
\* exponent letter, the letters of "t" and "f" in both cases, and the space.
InferAlphabet ==
    {Ord("0"), Ord("1"), Ord("-"), Ord("."), Ord("e"), Ord("t"), Ord("F"), Ord(" ")}

\* The values of TestTypeInference, src/unnamed/part_000:313-326, and of
\* spec.md 8.
InferFixtures ==
    { B(<<"t", "r", "u", "e">>),
      B(<<"f", "a", "l", "s", "e">>),
      B(<<"T", "R", "U", "E">>),
      B(<<"y", "e", "s">>),
      B(<<"-", "3", "2", "7", "6", "8">>),
      B(<<"3", "2", "7", "6", "7">>),
      B(<<"-", "3", "2", "7", "6", "9">>),
      B(<<"2", "1", "4", "7", "4", "8", "3", "6", "4", "7">>),
      B(<<"-", "2", "1", "4", "7", "4", "8", "3", "6", "4", "8">>),
      B(<<"-", "2", "1", "4", "7", "4", "8", "3", "6", "4", "9">>),
      B(<<"9", "2", "2", "3", "3", "7", "2", "0", "3", "6", "8", "5", "4",
          "7", "7", "5", "8", "0", "7">>),
      B(<<"9", "2", "2", "3", "3", "7", "2", "0", "3", "6", "8", "5", "4",
          "7", "7", "5", "8", "0", "8">>),
      B(<<"-", "9", "2", "2", "3", "3", "7", "2", "0", "3", "6", "8", "5", "4",
          "7", "7", "5", "8", "0", "8">>),
      B(<<"-", "9", "2", "2", "3", "3", "7", "2", "0", "3", "6", "8", "5", "4",
          "7", "7", "5", "8", "0", "9">>),
      B(<<"1", "2", "3", ".", "4", "5">>),
      B(<<"0", "3", "/", "2", "0", "/", "2", "0", "2", "4">>),
      B(<<"2", "0", "/", "0", "3", "/", "2", "0", "2", "4">>),
      B(<<"H", "e", "l", "l", "o", ",", " ", "W", "o", "r", "l", "d", "!">>) }

\* Integer literals with a sign, with leading zeros, and of 401 digits
\* (10^400 and -10^400), and padded booleans.
InferLiterals ==
    { B(<<"+", "7">>),
      B(<<"0", "0", "7">>),
      B(<<"-", "0">>),
      B(<<"+", "3", "2", "7", "6", "8">>),
      B(<<"1">>) \o <<Run(Ord("0"), 400)>>,
      B(<<"-", "1">>) \o <<Run(Ord("0"), 400)>>,
      B(<<" ", "T", "r", "u", "e", " ">>),
      B(<<"F", "a", "l", "s", "e">>),
      B(<<"t", " ", "r", "u", "e">>),
      B(<<"1">>),
      B(<<"0">>) }

InferValues ==
    Cells \cup InferFixtures \cup InferLiterals
    \cup UNION { StringsOfLen(InferAlphabet, n) : n \in 0..MaxValueLen }

InferInit ==
    /\ value \in InferValues
    /\ rank = 0
    /\ pc = "infer"
    /\ delimiter = B(<<",">>) /\ quotes = "none" /\ expectedCols = 0
    /\ scanner = "open" /\ lineNum = 0 /\ text = <<>> /\ fields = <<>>
    /\ inQuote = FALSE /\ prevOpen = FALSE /\ headers = <<>>
    /\ columnTypes = <<>> /\ maxLengths = <<>> /\ idx = 0 /\ ret = Running
    /\ observed = <<>>
    /\ stdout = <<>>
    /\ MainIdle

\* One call of inferType, lines 209-260, with the PostgreSQL analyzer.
Infer ==
    /\ pc = "infer"
    /\ rank' = inferType(value, GetTypes)
    /\ pc' = "inferred"
    /\ UNCHANGED <<delimiter, quotes, expectedCols, scanner, lineNum, text,
                   fields, inQuote, prevOpen, headers, columnTypes, maxLengths,
                   idx, ret, observed, value>>
    /\ stdout' = <<>>
    /\ UNCHANGED <<mainVars, fileVars>>

InferNext == Infer

InferSpec == InferInit /\ [][InferNext]_vars

-----------------------------------------------------------------------------
(* Properties of analyzeFileTypes, checked under Spec *)

\* analyzeFileTypes has returned without an error.
Succeeded == ret.returned /\ ret.err = NoError

\* The ranks of the values read in column i.
RanksOf(i) == { inferType(v, GetTypes) : v \in observed[i] }

\* The largest member of a non-empty set of numbers.
Largest(S) == CHOOSE m \in S : \A n \in S : n <= m

\* C1: when analyzeFileTypes succeeds, the rank returned for every column is
\* the largest rank inferType gives to a field of that column over all the
\* data rows read, and rank 0 when no data row was read.
C1_FinalTypeIsMaximum ==
    Succeeded =>
        /\ Len(ret.columnTypes) = Len(ret.headers)
        /\ \A i \in 1..Len(ret.headers) :
             ret.columnTypes[i] = Largest({0} \cup RanksOf(i))

\* A success on a column whose rows held values of two ranks at least.
C1_Witness ==
    /\ Succeeded
    /\ \E i \in 1..Len(ret.headers) : Cardinality(RanksOf(i)) >= 2

\* C2: no step of analyzeFileTypes lowers the rank of a column: after each
\* field, a column's rank is at least what it was before.
C2_NeverDemoted ==
    [][\A i \in 1..Len(columnTypes) : columnTypes'[i] >= columnTypes[i]]_vars

\* The first field of a row was just processed, its rank is below the rank of
\* its column, and the column kept its rank.
C2_Witness ==
    /\ pc = "fields"
    /\ idx = 2
    /\ inferType(fields[1], GetTypes) < columnTypes[1]

C4_ExpectedColumnsChecked ==
    /\ (lineNum >= 1 /\ expectedCols > 0 /\ Len(headers) # expectedCols) =>
         /\ pc = "done"
         /\ ret.returned
         /\ ret.err = [kind |-> "header", line |-> 0,
                       got |-> Len(headers), want |-> expectedCols]
         /\ Len(headers) = Len(splitFields(text, delimiter, quotes))
         /\ lineNum = 1
         /\ fields = <<>>
         /\ \A i \in 1..Len(observed) : observed[i] = {}
    /\ (expectedCols = 0 \/ Len(headers) = expectedCols) =>
         ret.err.kind # "header"

\* The quoted header "a,b" is one field in double-quote mode where two
\* columns were expected.
C4_Witness ==
    /\ quotes = "double"
    /\ expectedCols = 2
    /\ ret.err = [kind |-> "header", line |-> 0, got |-> 1, want |-> 2]

\* C5: whenever analyzeFileTypes returns an error, the headers, the column
\* types and the maximum lengths it returns are all empty, whatever it had
\* built before the error.
C5_NoResultsOnError ==
    (ret.returned /\ ret.err # NoError) =>
        /\ ret.headers = <<>>
        /\ ret.columnTypes = <<>>
        /\ ret.maxLengths = <<>>

\* A field-count error after a column was promoted and a length recorded.
C5_Witness ==
    /\ ret.returned
    /\ ret.err.kind = "line"
    /\ \E i \in 1..Len(columnTypes) : columnTypes[i] > 0 /\ maxLengths[i] > 0

\* C6: the analysis fails in two ways only, on the header's field count
\* (ConfigurationError) and on a data row's field count (StructuralError); no
\* content of a line or field, of any length, makes it fail otherwise.
C6_OnlyTwoErrorKinds ==
    ret.err.kind \in {"nil", "header", "line"}

-----------------------------------------------------------------------------
(* Properties of splitFields, checked under SplitSpec *)

\* The number of positions of s that hold the byte c.
Count(s, c) == Cardinality({ k \in 1..Len(s) : s[k] = c })

\* Does the byte c occur in s?
Contains(s, c) == \E k \in 1..Len(s) : s[k] = c

\* Is every byte of s below 0x80?
Ascii(s) == \A k \in 1..Len(s) : s[k] < 128

\* Does s end with t?
EndsWith(s, t) ==
    Len(t) <= Len(s) /\ SubSeq(s, Len(s) - Len(t) + 1, Len(s)) = t

RECURSIVE Join(_, _)
\* The members of the non-empty list fs with sep between them.
Join(fs, sep) ==
    IF Len(fs) = 1 THEN fs[1]
    ELSE fs[1] \o sep \o Join(Tail(fs), sep)

RECURSIVE QuoteMachine(_, _, _, _)
\* The quote-aware tokenizer as it is described: its state after the first n
\* characters of line.  The quote character qc toggles the flag and is
\* dropped, the delimiter d outside quotes ends the current field, every
\* other character is appended as it is.
QuoteMachine(line, d, qc, n) ==
    IF n = 0 THEN [ended |-> <<>>, current |-> <<>>, open |-> FALSE]
    ELSE LET s == QuoteMachine(line, d, qc, n - 1)
             c == line[n]
         IN IF c = qc THEN [s EXCEPT !.open = ~s.open]
            ELSE IF c = d /\ ~s.open
            THEN [s EXCEPT !.ended = Append(s.ended, s.current),
                           !.current = <<>>]
            ELSE [s EXCEPT !.current = Append(s.current, c)]

\* The fields of that tokenizer: the current field is emitted at the end.
MachineFields(line, d, qc) ==
    LET s == QuoteMachine(line, d, qc, Len(line)) IN Append(s.ended, s.current)

\* splitFields has returned in a quote mode.
QuotedSplitDone == pc = "split_done" /\ quotes # "none"

\* C7: in the single and double quote modes splitFields yields the fields of
\* the described state machine, which appends every character that is neither
\* the quote nor a splitting delimiter unchanged; no field holds the active
\* quote character, and "a,b","c,d" gives the two fields a,b and c,d.
C7_QuoteModeIsStateMachine ==
    QuotedSplitDone =>
        /\ fields = MachineFields(text, delimiter[1], quoteChar(quotes))
        /\ \A k \in 1..Len(fields) : ~Contains(fields[k], quoteChar(quotes))
        /\ (quotes = "double"
            /\ text = B(<<"dquote", "a", ",", "b", "dquote", ",",
                          "dquote", "c", ",", "d", "dquote">>))
           => fields = <<B(<<"a", ",", "b">>), B(<<"c", ",", "d">>)>>

\* C8: in quote mode none the number of fields is the number of delimiters in
\* the line plus one, no field holds the delimiter, quote characters stay in
\* the fields, and the fields joined with the delimiter give the line back.
C8_NoneModeSplitsEverywhere ==
    (pc = "split_done" /\ quotes = "none") =>
        /\ Len(fields) = Count(text, delimiter[1]) + 1
        /\ \A k \in 1..Len(fields) : ~Contains(fields[k], delimiter[1])
        /\ Join(fields, delimiter) = text
        /\ \A q \in {Ord("dquote"), Ord("'")} :
             Count(Join(fields, <<>>), q) = Count(text, q)

\* The line "," (a delimiter between two double quotes) is split in two
\* fields of one quote each.
C8_Witness ==
    /\ pc = "split_done"
    /\ quotes = "none"
    /\ text = B(<<"dquote", ",", "dquote">>)
    /\ fields = <<B(<<"dquote">>), B(<<"dquote">>)>>

\* C9: a line with an odd number of quote characters is split without an
\* error: the last field is emitted, it keeps every delimiter that follows
\* the last quote, and the open quote has no effect on the line after: a
\* line is split the same way whatever line came before it.
C9_UnterminatedQuote ==
    QuotedSplitDone =>
        LET qc == quoteChar(quotes)
            d == delimiter[1]
            odd == Count(text, qc) % 2 = 1
        IN /\ Len(fields) >= 1
           /\ inQuote = odd
           /\ odd =>
                LET last == Largest({ k \in 1..Len(text) : text[k] = qc })
                    tail == SubSeq(text, last + 1, Len(text))
                IN /\ Count(fields[Len(fields)], d) >= Count(tail, d)
                   /\ Ascii(tail) => EndsWith(fields[Len(fields)], tail)
           /\ Count(text, qc) = 0 => Len(fields) = Count(text, d) + 1
           /\ Ascii(text) => fields = MachineFields(text, d, qc)

\* After a line that left a quote open, the line ,', (one quote) gives an
\* empty field and a last field that is the delimiter after the quote.
C9_Witness ==
    /\ QuotedSplitDone
    /\ prevOpen
    /\ inQuote
    /\ quotes = "single"
    /\ text = B(<<",", "'", ",">>)
    /\ fields = << <<>>, B(<<",">>) >>

-----------------------------------------------------------------------------
(* Properties of inferType, checked under InferSpec *)

\* The predicate of a candidate type, as the catalog pairs them.
Recognizes(name, v) ==
    CASE name = "boolean" -> isBoolean(v)
      [] name = "smallint" -> isSmallInt(v)
      [] name = "integer" -> isInteger(v)
      [] name = "bigint" -> isBigInt(v)
      [] name = "numeric" -> isNumeric(v)
      [] name = "timestamp" -> isTimestamp(v)
      [] name = "date" -> isDate(v)
      [] name = "varchar" -> isVarchar(v)
      [] name = "text" -> TRUE

\* The rank of the first candidate, in the order of the catalog, whose
\* predicate takes v.
FirstRecognizing(v) ==
    CHOOSE t \in 0..(Len(GetTypes) - 1) :
        /\ Recognizes(TypeName(t), v)
        /\ \A u \in 0..(t - 1) : ~Recognizes(TypeName(u), v)

\* The value Hello, World! of TestTypeInference.
HelloWorld ==
    B(<<"H", "e", "l", "l", "o", ",", " ", "W", "o", "r", "l", "d", "!">>)

-----------------------------------------------------------------------------
(* Properties of the recognizers, checked under InferSpec *)

\* v is a base-10 integer literal: an optional sign, then digits.
IsIntegerLiteral(v) ==
    LET d == Unsigned(v) IN
    d # <<>> /\ \A k \in 1..Len(d) : IsDigits(d[k])

\* The integer literal v denotes a number n with -bound <= n < bound.
Within(v, bound) ==
    LET d == Unsigned(v) IN
    \/ DecLess(d, bound)
    \/ v[1] = Ord("-") /\ StripZeros(d) = bound

\* 2^15, 2^31 and 2^63 in decimal digits.
TwoTo15 == B(<<"3", "2", "7", "6", "8">>)
TwoTo31 == B(<<"2", "1", "4", "7", "4", "8", "3", "6", "4", "8">>)
TwoTo63 ==
    B(<<"9", "2", "2", "3", "3", "7", "2", "0", "3", "6",
        "8", "5", "4", "7", "7", "5", "8", "0", "8">>)

\* The type the ranges give to an integer literal.
TypeByRange(v) ==
    IF Within(v, TwoTo15) THEN "smallint"
    ELSE IF Within(v, TwoTo31) THEN "integer"
    ELSE IF Within(v, TwoTo63) THEN "bigint"
    ELSE "numeric"

\* C11: every base-10 signed integer literal is typed by its range alone:
\* smallint within 16 bits, integer within 32 bits and outside 16, bigint
\* within 64 bits and outside 32, numeric outside 64 bits.
C11_IntegerLiteralByRange ==
    (pc = "inferred" /\ IsIntegerLiteral(value)) =>
        TypeName(rank) = TypeByRange(value)

\* The four spellings of a boolean.
BooleanWords ==
    { B(<<"t", "r", "u", "e">>), B(<<"f", "a", "l", "s", "e">>),
      B(<<"t">>), B(<<"f">>) }

\* The lower-case form of a byte.
Lowered(c) == IF c >= 65 /\ c <= 90 THEN c + 32 ELSE c

\* v is one of the four words in letters of any case, with nothing but
\* whitespace before and after it.
IsBooleanText(v) ==
    \E i \in 1..Len(v) : \E j \in i..Len(v) :
        /\ \A k \in 1..(i - 1) : IsSpace(v[k])
        /\ \A k \in (j + 1)..Len(v) : IsSpace(v[k])
        /\ [k \in 1..(j - i + 1) |-> Lowered(v[i + k - 1])] \in BooleanWords

\* C12: a value is inferred as boolean exactly when, trimmed of surrounding
\* whitespace and lower-cased, it is true, false, t or f; 1 and 0 are
\* smallint, and yes is no boolean but a varchar.
C12_BooleanExactly ==
    pc = "inferred" =>
        /\ TypeName(rank) = "boolean" <=> IsBooleanText(value)
        /\ value \in {B(<<"1">>), B(<<"0">>)} => TypeName(rank) = "smallint"
        /\ value = B(<<"y", "e", "s">>) => TypeName(rank) = "varchar"

\* The value " True " (padded, mixed case) was inferred as boolean.
C12_Witness ==
    /\ pc = "inferred"
    /\ value = B(<<" ", "T", "r", "u", "e", " ">>)
    /\ TypeName(rank) = "boolean"

-----------------------------------------------------------------------------
(* Properties of the recorded lengths and of the final types, under Spec *)

\* The values read in column i that inferType gives the varchar rank.
VarcharValues(i) ==
    { v \in observed[i] : TypeName(inferType(v, GetTypes)) = "varchar" }

C14_LengthCoversColumn ==
    Succeeded =>
        \A i \in 1..Len(ret.headers) :
            TypeName(ret.columnTypes[i]) = "varchar" =>
                /\ ret.maxLengths[i] =
                     Largest({0} \cup { ByteLen(v) : v \in observed[i] })
                /\ \A v \in observed[i] : ByteLen(v) <= ret.maxLengths[i]

\* PostgreSQLAnalyzer.GetTypeCompatibility(): for the type of a value, the
\* types of a column that can hold it.  analyzeFileTypes does not call it.
GetTypeCompatibility ==
    [boolean |-> <<"boolean", "text">>,
     smallint |-> <<"smallint", "integer", "bigint", "numeric", "text">>,
     integer |-> <<"integer", "bigint", "numeric", "text">>,
     bigint |-> <<"bigint", "numeric", "text">>,
     numeric |-> <<"numeric", "text">>,
     timestamp |-> <<"timestamp", "date", "text">>,
     date |-> <<"date", "text">>,
     text |-> <<"text">>]

\* The name a type is looked up by in the matrix, which has no entry of its
\* own for the bounded text type: varchar is looked up as text.
MatrixName(name) == IF name = "varchar" THEN "text" ELSE name

\* Is the column type listed in the matrix under the type of a value?
ListedUnder(columnType, valueType) ==
    \E k \in 1..Len(GetTypeCompatibility[MatrixName(valueType)]) :
        GetTypeCompatibility[MatrixName(valueType)][k] = MatrixName(columnType)

\* Can a column of the type of rank t hold every value read in column i?
Accommodates(t, i) ==
    \A v \in observed[i] :
        ListedUnder(TypeName(t), TypeName(inferType(v, GetTypes)))

\* C15: when analyzeFileTypes succeeds, the final type of every column is
\* listed in the compatibility matrix under the inferred type of every value
\* of the column, and no more specific type is: a column of a boolean and a
\* smallint value, or of a numeric and a date value, ends as text.
C15_FinalTypeAccommodatesAll ==
    Succeeded =>
        \A i \in 1..Len(ret.headers) :
            /\ Accommodates(ret.columnTypes[i], i)
            /\ \A t \in 0..(ret.columnTypes[i] - 1) :
                 TypeName(t) # "varchar" => ~Accommodates(t, i)

\* C16: an empty field is a possible NULL: processing it leaves the type and
\* the recorded length of its column as they were, so a column of smallint
\* values and empty fields ends as smallint.
C16_EmptyFieldChangesNothing ==
    [][(pc \in {"fields", "length"} /\ fields[idx] = <<>>)
         => (columnTypes' = columnTypes /\ maxLengths' = maxLengths)]_vars

\* The rank of varchar in the catalog.
VarcharRank == CHOOSE t \in 0..(Len(GetTypes) - 1) : TypeName(t) = "varchar"

\* C19: at every point of the scan a column with a recorded length above 0
\* has the rank of varchar at least, the promotion on a field being applied
\* before the field's length is recorded; and no step lowers a recorded
\* length.
C19_LengthImpliesTextRank ==
    /\ [](\A i \in 1..Len(maxLengths) :
            maxLengths[i] > 0 => columnTypes[i] >= VarcharRank)
    /\ [][\A i \in 1..Len(maxLengths) : maxLengths'[i] >= maxLengths[i]]_vars

\* The column of the field at hand was promoted to varchar on this field
\* or before, holds the length 2, and the length 5 of the field abcde is
\* about to be recorded.
C19_Witness ==
    /\ pc = "length"
    /\ fields[idx] = B(<<"a", "b", "c", "d", "e">>)
    /\ maxLengths[idx] = 2
    /\ columnTypes[idx] = VarcharRank

-----------------------------------------------------------------------------
(* analyzeFileTypes on the lines of a whole file, src/main.go:153-207 *)

\* What a call yields: the values it returns and the lines it prints.
Outcome(r, out) == [ret |-> r, printed |-> out]

\* A line that the scanner of line 154 cannot hold.
TooLong(line) == Scan([eof |-> FALSE, line |-> line]) = "toolong"

RECURSIVE fieldsFrom(_, _, _, _, _, _)
\* Lines 188-199: the loop over the fields f of a row from field i on, with
\* the types, the lengths and the printed lines so far.
fieldsFrom(f, i, hdrs, types, lengths, out) ==
    IF i > Len(f) THEN [columnTypes |-> types, maxLengths |-> lengths,
                        printed |-> out]
    ELSE LET fieldType == inferType(f[i], GetTypes) IN
         fieldsFrom(f, i + 1, hdrs,
                    promote(types, i, fieldType),
                    recordLength(lengths, i, fieldType, f[i]),
                    IF fieldType > types[i]
                    THEN Append(out, DebugPromoted(hdrs[i], TypeName(fieldType)))
                    ELSE out)

RECURSIVE rowsFrom(_, _, _, _, _, _, _, _)
\* Lines 178-206: the loop over the lines from line k on (the header is line
\* 1), then the scanner's error or the results.
rowsFrom(lines, k, delim, q, hdrs, types, lengths, out) ==
    IF k > Len(lines)
    THEN Outcome([returned |-> TRUE, headers |-> hdrs, columnTypes |-> types,
                  maxLengths |-> lengths, err |-> NoError], out)
    ELSE IF TooLong(lines[k])
    THEN Outcome(Failure([kind |-> "read", line |-> 0, got |-> 0, want |-> 0]),
                 out)
    ELSE LET f == splitFields(lines[k], delim, q) IN
         IF Len(f) # Len(hdrs)
         THEN Outcome(Failure([kind |-> "line", line |-> k, got |-> Len(f),
                               want |-> Len(hdrs)]), out)
         ELSE LET row == fieldsFrom(f, 1, hdrs, types, lengths, out) IN
              rowsFrom(lines, k + 1, delim, q, hdrs, row.columnTypes,
                       row.maxLengths, row.printed)

\* analyzeFileTypes on a file of the given lines.
analyzeLines(lines, delim, q, ncols) ==
    IF lines = <<>>
    THEN Outcome([returned |-> TRUE, headers |-> <<>>, columnTypes |-> <<>>,
                  maxLengths |-> <<>>, err |-> NoError], <<>>)
    ELSE IF TooLong(lines[1])
    THEN Outcome(Failure([kind |-> "read", line |-> 0, got |-> 0, want |-> 0]),
                 <<>>)
    ELSE LET h == splitFields(lines[1], delim, q) IN
         IF ncols > 0 /\ Len(h) # ncols
         THEN Outcome(Failure([kind |-> "header", line |-> 0, got |-> Len(h),
                               want |-> ncols]), <<>>)
         ELSE rowsFrom(lines, 2, delim, q, h, [i \in 1..Len(h) |-> 0],
                       [i \in 1..Len(h) |-> 0], <<>>)

-----------------------------------------------------------------------------
(* Runs of analyzeFileTypes on a file and on the file with its data rows in
   another order *)

\* The largest number of data rows of those files.
MaxFileRows == 3

\* The data rows of those files: a boolean, a smallint, a varchar, an empty
\* line and a row of two fields.
FileRows(d) ==
    { B(<<"t">>), B(<<"7">>), B(<<"a", "b", "c", "d", "e">>), <<>>,
      B(<<"a", "b">>) \o d \o B(<<"t">>) }

\* The orders of n rows.
Orders(n) == { p \in [1..n -> 1..n] : \A a, b \in 1..n : p[a] = p[b] => a = b }

FileInit ==
    /\ delimiter = B(<<",">>)
    /\ quotes \in {"none", "double"}
    /\ expectedCols = 0
    /\ \E n \in 0..MaxFileRows :
         \E rows \in [1..n -> FileRows(delimiter)] : \E p \in Orders(n) :
            /\ file = <<B(<<"a">>)>> \o rows
            /\ shuffled = <<B(<<"a">>)>> \o [k \in 1..n |-> rows[p[k]]]
    /\ ret = Running
    /\ retShuffled = Running
    /\ pc = "files"
    /\ scanner = "open" /\ lineNum = 0 /\ text = <<>> /\ fields = <<>>
    /\ headers = <<>> /\ columnTypes = <<>> /\ maxLengths = <<>> /\ idx = 0
    /\ observed = <<>> /\ stdout = <<>>
    /\ Idle
    /\ args = <<>> /\ flags = FlagDefaults /\ positional = <<>>
    /\ stderr = <<>> /\ exit = -1

\* analyzeFileTypes is called on the file, and on the file reordered.
AnalyzeFiles ==
    /\ pc = "files"
    /\ ret' = analyzeLines(file, delimiter, quotes, expectedCols).ret
    /\ retShuffled' = analyzeLines(shuffled, delimiter, quotes, expectedCols).ret
    /\ pc' = "analyzed"
    /\ UNCHANGED <<delimiter, quotes, expectedCols, scanner, lineNum, text,
                   fields, inQuote, prevOpen, headers, columnTypes, maxLengths,
                   idx, observed, value, rank, stdout, args, flags, positional,
                   file, stderr, exit, shuffled>>

FileNext == AnalyzeFiles

FileSpec == FileInit /\ [][FileNext]_vars

\* C20: the result of a successful analyzeFileTypes does not depend on the
\* order of the data rows: on the same rows in any other order it returns
\* the same headers, column types and maximum lengths.
C20_RowOrderIrrelevant ==
    (pc = "analyzed" /\ ret.err = NoError) => retShuffled = ret

\* The rows t, 7, abcde and the rows abcde, 7, t both give varchar(5).
C20_Witness ==
    /\ pc = "analyzed"
    /\ file = <<B(<<"a">>), B(<<"t">>), B(<<"7">>),
                B(<<"a", "b", "c", "d", "e">>)>>
    /\ shuffled = <<B(<<"a">>), B(<<"a", "b", "c", "d", "e">>), B(<<"7">>),
                    B(<<"t">>)>>
    /\ ret.err = NoError
    /\ ret.columnTypes = <<VarcharRank>>
    /\ ret.maxLengths = <<5>>
    /\ retShuffled = ret

-----------------------------------------------------------------------------
(* main, src/main.go:31-105 *)

\* The names of the flags of lines 33-36.
DelimFlag == B(<<"d", "e", "l", "i", "m">>)
FlavorFlag == B(<<"f", "l", "a", "v", "o", "r">>)
QuotesFlag == B(<<"q", "u", "o", "t", "e", "s">>)
NcolsFlag == B(<<"n", "c", "o", "l", "s">>)

\* The index of the first "=" of a flag name after its first byte, or 0.
EqualsAt(name) ==
    IF \E k \in 2..Len(name) : name[k] = Ord("=")
    THEN CHOOSE k \in 2..Len(name) :
            name[k] = Ord("=") /\ \A j \in 2..(k - 1) : name[j] # Ord("=")
    ELSE 0

\* The Set of the value of -ncols: strconv.ParseInt(s, 0, 64) returns no
\* error.  Of base 0 the decimal form is modelled: a literal with a leading
\* zero, a base prefix or an underscore is in no command line of the model.
IntFlagOK(s) ==
    /\ ParseIntOK(s, 64)
    /\ (Len(Unsigned(s)) > 1 => Unsigned(s)[1] # Ord("0"))

\* The int that the value of -ncols denotes (the values of the model have
\* one digit).
IntFlagValue(s) ==
    IF s[1] = Ord("-") THEN 0 - DecValue(Unsigned(s)) ELSE DecValue(Unsigned(s))

\* The flags fl with the flag called name set to value: err is "nil", or
\* what flag.Value.Set reports.
SetFlag(fl, name, v) ==
    CASE name = DelimFlag -> [err |-> "nil", flags |-> [fl EXCEPT !.delim = v]]
      [] name = FlavorFlag -> [err |-> "nil", flags |-> [fl EXCEPT !.flavor = v]]
      [] name = QuotesFlag -> [err |-> "nil", flags |-> [fl EXCEPT !.quotes = v]]
      [] name = NcolsFlag ->
           IF IntFlagOK(v)
           THEN [err |-> "nil", flags |-> [fl EXCEPT !.ncols = IntFlagValue(v)]]
           ELSE [err |-> "invalid value", flags |-> fl]

RECURSIVE flagParse(_, _)
\* flag.Parse() of line 39 on the arguments a with the flags fl: the loop of
\* FlagSet.parseOne.  It stops at the first argument that is no flag (one
\* shorter than two bytes or without a leading "-") and at "--"; a flag
\* takes its value after "=" or from the next argument.
flagParse(a, fl) ==
    IF a = <<>> THEN [err |-> "nil", flags |-> fl, rest |-> a, name |-> <<>>]
    ELSE LET s == a[1] IN
    IF Len(s) < 2 \/ s[1] # Ord("-")
    THEN [err |-> "nil", flags |-> fl, rest |-> a, name |-> <<>>]
    ELSE IF s = B(<<"-", "-">>)
    THEN [err |-> "nil", flags |-> fl, rest |-> Tail(a), name |-> <<>>]
    ELSE LET full == IF s[2] = Ord("-") THEN SubSeq(s, 3, Len(s))
                     ELSE SubSeq(s, 2, Len(s))
             eq == EqualsAt(full)
             name == IF eq > 0 THEN SubSeq(full, 1, eq - 1) ELSE full
             after == Tail(a)
             hasValue == eq > 0 \/ after # <<>>
             v == IF eq > 0 THEN SubSeq(full, eq + 1, Len(full))
                  ELSE IF after # <<>> THEN after[1] ELSE <<>>
             left == IF eq > 0 \/ after = <<>> THEN after ELSE Tail(after)
         IN
         IF full = <<>> \/ full[1] = Ord("-") \/ full[1] = Ord("=")
         THEN [err |-> "bad flag syntax", flags |-> fl, rest |-> a, name |-> s]
         ELSE IF name \notin {DelimFlag, FlavorFlag, QuotesFlag, NcolsFlag}
         THEN [err |-> IF name \in {B(<<"h", "e", "l", "p">>), B(<<"h">>)}
                       THEN "help" ELSE "flag provided but not defined",
               flags |-> fl, rest |-> after, name |-> name]
         ELSE IF ~hasValue
         THEN [err |-> "flag needs an argument", flags |-> fl, rest |-> after,
               name |-> name]
         ELSE LET set == SetFlag(fl, name, v) IN
              IF set.err # "nil"
              THEN [err |-> set.err, flags |-> fl, rest |-> left, name |-> name]
              ELSE flagParse(left, set.flags)

\* getAnalyzer, lines 22-29: is the flavor supported?
getAnalyzer(flavor) ==
    strings_ToLower(flavor) = B(<<"p", "o", "s", "t", "g", "r", "e", "s", "q", "l">>)

\* The quote mode that the value of -quotes names, as lines 69 and 118-122
\* compare it.
QuoteMode(v) ==
    CASE v = B(<<"n", "o", "n", "e">>) -> "none"
      [] v = B(<<"s", "i", "n", "g", "l", "e">>) -> "single"
      [] v = B(<<"d", "o", "u", "b", "l", "e">>) -> "double"
      [] OTHER -> "invalid"

\* Line 50: the dump of the parameters.
DebugParams(path, fl, rest) == <<"DEBUG", "params", path, fl, rest>>

\* Lines 98-102: the line of one column.
ColumnLine(header, typeName, n) ==
    IF typeName = "varchar" THEN <<"column", header, "varchar", n>>
    ELSE <<"column", header, typeName>>

\* Lines 95-103: the lines of the results.
ResultLines(r) ==
    <<<<"Column Analysis:">>>>
    \o [i \in 1..Len(r.headers) |->
          ColumnLine(r.headers[i], TypeName(r.columnTypes[i]), r.maxLengths[i])]

\* Line 66: the first byte of the value of -delim.
delimChar(fl) == <<fl.delim[1]>>

\* The path of the input file of the model; os.Open succeeds on this path
\* and on no other.
DataCsv == B(<<"d", "a", "t", "a", ".", "c", "s", "v">>)

\* The longest generated command line, in arguments.
MaxArgs == 3

\* The arguments of the generated command lines.
ArgWords ==
    { DataCsv,
      B(<<"-", "d", "e", "l", "i", "m">>), B(<<",">>),
      B(<<"-", "q", "u", "o", "t", "e", "s">>), B(<<"d", "o", "u", "b", "l", "e">>),
      B(<<"-", "n", "c", "o", "l", "s">>), B(<<"2">>),
      B(<<"-", "v">>) }

\* The command lines of the README (the file first, then the flags), and
\* command lines with the flags first.
UsageLines ==
    LET delim == B(<<"-", "d", "e", "l", "i", "m">>)
        quot == B(<<"-", "q", "u", "o", "t", "e", "s">>)
        ncol == B(<<"-", "n", "c", "o", "l", "s">>)
        comma == B(<<",">>)
        double == B(<<"d", "o", "u", "b", "l", "e">>)
    IN { <<DataCsv, delim, comma, quot, double>>,
         <<DataCsv, delim, comma, ncol, B(<<"2">>)>>,
         <<DataCsv, delim, comma, B(<<"-", "v">>)>>,
         <<delim, comma, quot, double, ncol, B(<<"2">>), DataCsv>>,
         <<delim, comma, quot, B(<<"s", "i", "n", "g", "l", "e">>), DataCsv>>,
         <<B(<<"-", "-", "d", "e", "l", "i", "m", "=", ",">>), DataCsv>>,
         <<delim, comma, B(<<"-", "-">>), DataCsv>>,
         <<B(<<"-", "f", "l", "a", "v", "o", "r">>), B(<<"m", "y", "s", "q", "l">>),
           delim, comma, DataCsv>>,
         <<ncol, B(<<"-", "1">>), delim, comma, DataCsv>>,
         <<quot, B(<<"b", "o", "t", "h">>), delim, comma, DataCsv>>,
         <<delim, comma, B(<<"n", "o", ".", "c", "s", "v">>)>>,
         <<B(<<"-", "h">>)>>,
         <<B(<<"-", "-", "-", "v">>)>> }

CommandLines ==
    UsageLines \cup UNION { StringsOfLen(ArgWords, n) : n \in 0..MaxArgs }

\* The input files: no line; a header alone; two columns with a promotion to
\* smallint and to varchar; a data row of another field count.
Files ==
    { <<>>,
      <<B(<<"a", ",", "b">>)>>,
      <<B(<<"a", ",", "b">>), B(<<"7", ",", "t">>), B(<<"a", "b", ",", "f">>)>>,
      <<B(<<"a", ",", "b">>), B(<<"t">>)>> }

MainInit ==
    /\ args \in CommandLines
    /\ file \in Files
    /\ flags = FlagDefaults
    /\ positional = <<>>
    /\ stdout = <<>>
    /\ stderr = <<>>
    /\ exit = -1
    /\ pc = "main"
    /\ delimiter = <<>> /\ quotes = "none" /\ expectedCols = 0
    /\ ret = Running
    /\ scanner = "open" /\ lineNum = 0 /\ text = <<>> /\ fields = <<>>
    /\ headers = <<>> /\ columnTypes = <<>> /\ maxLengths = <<>> /\ idx = 0
    /\ observed = <<>>
    /\ Idle
    /\ shuffled = <<>> /\ retShuffled = Running

\* Line 39: flag.Parse(), which on an error prints it with the usage on
\* os.Stderr and exits with 2 (with 0 after -h or -help).
ParseFlags ==
    /\ pc = "main"
    /\ LET r == flagParse(args, FlagDefaults) IN
         /\ flags' = r.flags
         /\ positional' = r.rest
         /\ IF r.err = "nil"
            THEN /\ pc' = "parsed"
                 /\ stderr' = <<>>
                 /\ exit' = exit
            ELSE /\ pc' = "exited"
                 /\ stderr' = IF r.err = "help" THEN <<<<"usage">>>>
                              ELSE <<<<r.err, r.name>>, <<"usage">>>>
                 /\ exit' = IF r.err = "help" THEN 0 ELSE 2
    /\ stdout' = <<>>
    /\ UNCHANGED <<delimiter, quotes, expectedCols, scanner, lineNum, text,
                   fields, inQuote, prevOpen, headers, columnTypes, maxLengths,
                   idx, ret, observed, value, rank, args, file, fileVars>>

\* Lines 42-79: the positional argument, the dump of the parameters and the
\* validation of the flags.
Validate ==
    /\ pc = "parsed"
    /\ IF positional = <<>>
       THEN /\ stdout' = <<<<"Error", "File path is required as a positional argument">>,
                          <<"Usage">>>>
            /\ stderr' = <<>>
            /\ exit' = 1
            /\ pc' = "exited"
       ELSE LET dump == DebugParams(positional[1], flags, positional)
                problem ==
                    IF flags.delim = <<>> THEN "-delim parameter is required"
                    ELSE IF flags.ncols < 0
                    THEN "ncols must be a positive integer"
                    ELSE IF QuoteMode(flags.quotes) = "invalid"
                    THEN "quotes must be one of: none, single, double"
                    ELSE IF ~getAnalyzer(flags.flavor)
                    THEN "unsupported database flavor"
                    ELSE "none"
            IN IF problem = "none"
               THEN /\ stdout' = <<dump>>
                    /\ stderr' = <<>>
                    /\ exit' = exit
                    /\ pc' = "validated"
               ELSE /\ stdout' = <<dump, <<"Error", problem>>>>
                    /\ stderr' = IF flags.delim = <<>> THEN <<<<"usage">>>>
                                 ELSE <<>>
                    /\ exit' = 1
                    /\ pc' = "exited"
    /\ UNCHANGED <<delimiter, quotes, expectedCols, scanner, lineNum, text,
                   fields, inQuote, prevOpen, headers, columnTypes, maxLengths,
                   idx, ret, observed, value, rank, args, flags, positional,
                   file, fileVars>>

\* Lines 82-104: the file is opened and analyzed, and the error or the
\* results are printed.
RunAnalysis ==
    /\ pc = "validated"
    /\ pc' = "exited"
    /\ IF positional[1] # DataCsv
       THEN /\ stdout' = <<<<"Error", "opening file", positional[1]>>>>
            /\ exit' = 1
            /\ UNCHANGED <<delimiter, quotes, expectedCols, ret>>
       ELSE \E o \in {analyzeLines(file, delimChar(flags),
                                   QuoteMode(flags.quotes), flags.ncols)} :
               /\ delimiter' = delimChar(flags)
               /\ quotes' = QuoteMode(flags.quotes)
               /\ expectedCols' = flags.ncols
               /\ ret' = o.ret
               /\ IF o.ret.err # NoError
                  THEN /\ stdout' = Append(o.printed,
                                           <<"Error", "analysis", o.ret.err>>)
                       /\ exit' = 1
                  ELSE /\ stdout' = o.printed \o ResultLines(o.ret)
                       /\ exit' = 0
    /\ stderr' = <<>>
    /\ UNCHANGED <<scanner, lineNum, text, fields, inQuote, prevOpen, headers,
                   columnTypes, maxLengths, idx, observed, value, rank, args,
                   flags, positional, file, fileVars>>

MainNext == ParseFlags \/ Validate \/ RunAnalysis

MainSpec == MainInit /\ [][MainNext]_vars

-----------------------------------------------------------------------------
(* Claims about the command line *)

\* The flags that may follow -delim in the documented form, with the quote
\* mode and the expected count that they ask for.
DocumentedTails ==
    { [tail |-> <<>>, quotes |-> "none", ncols |-> 0],
      [tail |-> <<B(<<"-", "q", "u", "o", "t", "e", "s">>),
                  B(<<"d", "o", "u", "b", "l", "e">>)>>,
       quotes |-> "double", ncols |-> 0],
      [tail |-> <<B(<<"-", "n", "c", "o", "l", "s">>), B(<<"2">>)>>,
       quotes |-> "none", ncols |-> 2] }

\* The command line is  data.csv -delim ,  followed by the tail t.
Documented(t) ==
    args = <<DataCsv, B(<<"-", "d", "e", "l", "i", "m">>), B(<<",">>)>> \o t.tail

\* A line of the given error is among the lines just printed.
PrintsError(problem) ==
    \E k \in 1..Len(stdout) : stdout[k][1] = "Error" /\ stdout[k][2] = problem

\* C17: a command line of the documented form (the file first, then -delim
\* and the optional flags) never stops with "-delim parameter is required",
\* and once it has exited it has analyzed the file with the delimiter, the
\* quote mode and the expected count of its flags.
C17_DocumentedFormRuns ==
    \A t \in DocumentedTails :
        Documented(t) =>
            /\ ~PrintsError("-delim parameter is required")
            /\ pc = "exited" =>
                  /\ ret.returned
                  /\ delimiter = B(<<",">>)
                  /\ quotes = t.quotes
                  /\ expectedCols = t.ncols

\* The flag of the verbose mode, as the README writes it.
VerboseFlag == B(<<"-", "v">>)

\* The command line asks for the verbose mode.
Verbose == \E k \in 1..Len(args) : args[k] = VerboseFlag

\* flag.Parse() has rejected -v as a flag that is not defined.
VerboseRejected ==
    \E k \in 1..Len(stderr) :
        /\ stderr[k][1] = "flag provided but not defined"
        /\ stderr[k][2] = B(<<"v">>)

\* C18: a run without -v prints no DEBUG line (neither the dump of the
\* parameters nor a promotion), and -v is a flag that the tool accepts.
C18_DebugOnlyWhenVerbose ==
    /\ ~Verbose => \A k \in 1..Len(stdout) : stdout[k][1] # "DEBUG"
    /\ ~VerboseRejected

-----------------------------------------------------------------------------
(* Claims about inputs without a line, lines without a quote character and
   the guards of inferType *)

\* The call has returned on a file in which the scanner found no line.
ReturnedOnNoLine == pc = "done" /\ lineNum = 0 /\ scanner = "eof"

\* C21: on a file of zero lines analyzeFileTypes returns no error and no
\* column (no header, no type, no length), whatever the expected count: the
\* count is compared only with a header line.
C21_NoLineIsSuccess ==
    ReturnedOnNoLine =>
        /\ Succeeded
        /\ ret.headers = <<>>
        /\ ret.columnTypes = <<>>
        /\ ret.maxLengths = <<>>

\* A file of zero lines has been analyzed to the end with a positive
\* expected count.
C21_Witness == ReturnedOnNoLine /\ expectedCols > 0 /\ Succeeded

\* C22: every call of splitFields returns at least one field, and on a line
\* without the active quote character the single and double quote modes
\* return the fields that quote mode none returns, bytes outside ASCII
\* included.
C22_QuoteFreeLinesSplitAlike ==
    pc = "split_done" =>
        /\ Len(fields) >= 1
        /\ (quotes # "none" /\ ~Contains(text, quoteChar(quotes)))
              => fields = splitFields(text, delimiter, "none")

RECURSIVE plainFrom(_, _)
\* First match without the guards: the 0-based index, from index i on, of
\* the first name of the catalog whose recognizer alone takes v.
plainFrom(v, i) ==
    IF i >= Len(GetTypes) - 1 THEN Len(GetTypes) - 1
    ELSE IF Recognizes(GetTypes[i + 1], v) THEN i
    ELSE plainFrom(v, i + 1)

\* The case of rank t has a guard that turns v away although the recognizer
\* of the case takes v.
GuardRejects(t, v) ==
    Recognizes(TypeName(t), v) /\ ~caseAccepts(TypeName(t), v)

=============================================================================
